---- MODULE Spec2Model ----
(***************************************************************************)
(* Model of the Solana helper HTTP service of src/src/main.rs: the router, *)
(* the seven POST handlers, and the codec / instruction-builder calls they *)
(* make.                                                                   *)
(*                                                                         *)
(* Representation.                                                         *)
(*   - A Rust String is a sequence of one-character strings.               *)
(*   - A byte string (Vec<u8>, [u8; N]) is a sequence of 0..255.           *)
(*   - Option<T> is a set: None is {}, Some(v) is {v}.                     *)
(*   - A u64 is four 16-bit limbs, most significant first, because the     *)
(*     model checker's integers are 32 bits wide.                          *)
(*   - SHA-256 (program-derived addresses) and the Ed25519 group are not   *)
(*     computed: Digest32 stands for the hash, and the signature scheme    *)
(*     built on it keeps what the handlers observe: signing is             *)
(*     deterministic, a signature is 64 bytes R || S, and verification     *)
(*     accepts it exactly when S answers to (R, public key, message).      *)
(***************************************************************************)
EXTENDS Integers, Sequences, FiniteSets, TLC

VARIABLES request, reply

vars == <<request, reply>>

(***************************************************************************)
(* Option<T>                                                               *)
(***************************************************************************)
None == {}

Some(v) == {v}

IsSome(o) == o # {}

Unwrap(o) == CHOOSE v \in o : TRUE

(***************************************************************************)
(* Strings and bytes                                                       *)
(***************************************************************************)
Repeat(c, n) == [i \in 1..n |-> c]

Reverse(s) == [i \in 1..Len(s) |-> s[Len(s) + 1 - i]]

\* Position of character c in an alphabet, 0-based; -1 when absent.
IndexIn(alphabet, c) ==
    IF \E i \in 1..Len(alphabet) : alphabet[i] = c
    THEN (CHOOSE i \in 1..Len(alphabet) : alphabet[i] = c) - 1
    ELSE -1

\* Number of leading elements of s equal to z.
LeadingCount(s, z) ==
    IF \A i \in 1..Len(s) : s[i] = z THEN Len(s)
    ELSE (CHOOSE i \in 1..Len(s) : s[i] # z /\ \A j \in 1..(i - 1) : s[j] = z) - 1

\* The digits of a carry, least significant first (bs58's `while carry > 0`).
RECURSIVE CarryDigits(_, _)
CarryDigits(carry, base) ==
    IF carry = 0 THEN <<>>
    ELSE <<carry % base>> \o CarryDigits(carry \div base, base)

\* bs58's inner loop over the digits acc[lo..hi] of a little-endian number:
\* each becomes (carry + digit * mul) % base and hands on the quotient. The
\* range is split in halves, and each half's result is tested before it is
\* used, so that the evaluation stays shallow; the order of the steps is the
\* loop's.
RECURSIVE MulAddRange(_, _, _, _, _, _)
MulAddRange(acc, lo, hi, carry, mul, base) ==
    IF lo > hi THEN [d |-> <<>>, c |-> carry]
    ELSE IF lo = hi
    THEN LET v == carry + acc[lo] * mul
         IN  [d |-> <<v % base>>, c |-> v \div base]
    ELSE LET mid   == (lo + hi) \div 2
             left  == MulAddRange(acc, lo, mid, carry, mul, base)
             right == MulAddRange(acc, mid + 1, hi, left.c, mul, base)
         IN  IF left.c >= 0 /\ right.c >= 0
             THEN [d |-> left.d \o right.d, c |-> right.c]
             ELSE [d |-> <<>>, c |-> 0]

\* acc * mul + val in base `base`, little-endian.
MulAddLE(acc, val, mul, base) ==
    LET r == MulAddRange(acc, 1, Len(acc), val, mul, base)
    IN  r.d \o CarryDigits(r.c, base)

\* bs58's outer loop over input[lo..hi], most significant first.
RECURSIVE BaseConvert(_, _, _, _, _, _)
BaseConvert(input, lo, hi, acc, mul, base) ==
    IF lo > hi THEN acc
    ELSE IF lo = hi THEN MulAddLE(acc, input[lo], mul, base)
    ELSE LET mid  == (lo + hi) \div 2
             left == BaseConvert(input, lo, mid, acc, mul, base)
         IN  IF Len(left) >= 0 THEN BaseConvert(input, mid + 1, hi, left, mul, base)
             ELSE <<>>

(***************************************************************************)
(* base58 (crate bs58, Bitcoin alphabet)                                   *)
(***************************************************************************)
B58Alphabet ==
    <<"1","2","3","4","5","6","7","8","9",
      "A","B","C","D","E","F","G","H","J","K","L","M","N","P","Q","R","S",
      "T","U","V","W","X","Y","Z",
      "a","b","c","d","e","f","g","h","i","j","k","m","n","o","p","q","r",
      "s","t","u","v","w","x","y","z">>

\* bs58::encode(bytes).into_string()
B58Encode(bytes) ==
    LET digits == BaseConvert(bytes, 1, Len(bytes), <<>>, 256, 58)
                  \o Repeat(0, LeadingCount(bytes, 0))
    IN  [i \in 1..Len(digits) |-> B58Alphabet[digits[Len(digits) + 1 - i] + 1]]

\* bs58::decode(s).into_vec().ok(): None on a character outside the alphabet.
B58Decode(s) ==
    LET digits == [i \in 1..Len(s) |-> IndexIn(B58Alphabet, s[i])]
    IN  IF \E i \in 1..Len(s) : digits[i] < 0 THEN None
        ELSE Some(Reverse(BaseConvert(digits, 1, Len(s), <<>>, 58, 256)
                          \o Repeat(0, LeadingCount(s, "1"))))

(***************************************************************************)
(* base64 (crate base64, standard alphabet, canonical padding)             *)
(***************************************************************************)
B64Alphabet ==
    <<"A","B","C","D","E","F","G","H","I","J","K","L","M","N","O","P","Q",
      "R","S","T","U","V","W","X","Y","Z",
      "a","b","c","d","e","f","g","h","i","j","k","l","m","n","o","p","q",
      "r","s","t","u","v","w","x","y","z",
      "0","1","2","3","4","5","6","7","8","9","+","/">>

B64Char(n) == B64Alphabet[n + 1]

\* The (up to three) bytes at 3g+1.. as one 4-character group.
B64Group(bytes, g) ==
    LET n  == Len(bytes) - 3 * g
        b0 == bytes[3 * g + 1]
        b1 == IF n > 1 THEN bytes[3 * g + 2] ELSE 0
        b2 == IF n > 2 THEN bytes[3 * g + 3] ELSE 0
    IN  << B64Char(b0 \div 4),
           B64Char((b0 % 4) * 16 + b1 \div 16),
           IF n > 1 THEN B64Char((b1 % 16) * 4 + b2 \div 64) ELSE "=",
           IF n > 2 THEN B64Char(b2 % 64) ELSE "=" >>

\* base64::encode(bytes)
B64Encode(bytes) ==
    LET groups == (Len(bytes) + 2) \div 3
    IN  [i \in 1..(4 * groups) |-> B64Group(bytes, (i - 1) \div 4)[((i - 1) % 4) + 1]]

\* base64::decode(s).ok(): None on a bad character, a length that is not a
\* multiple of four, misplaced padding or non-zero trailing bits.
B64Decode(s) ==
    LET n    == Len(s)
        pad  == IF n >= 2 /\ s[n] = "=" /\ s[n - 1] = "=" THEN 2
                ELSE IF n >= 1 /\ s[n] = "=" THEN 1 ELSE 0
        m    == n - pad
        v    == [i \in 1..m |-> IndexIn(B64Alphabet, s[i])]
        outN == (n \div 4) * 3 - pad
        Byte(k) ==
            LET g == (k - 1) \div 3
                j == (k - 1) % 3
                a == v[4 * g + j + 1]
                b == v[4 * g + j + 2]
            IN  CASE j = 0 -> a * 4 + b \div 16
                  [] j = 1 -> (a % 16) * 16 + b \div 4
                  [] j = 2 -> (a % 4) * 64 + b
    IN  IF n % 4 # 0 THEN None
        ELSE IF \E i \in 1..m : v[i] < 0 THEN None
        ELSE IF pad = 1 /\ v[m] % 4 # 0 THEN None
        ELSE IF pad = 2 /\ v[m] % 16 # 0 THEN None
        ELSE Some([k \in 1..outN |-> Byte(k)])

(***************************************************************************)
(* Integers of fixed width                                                 *)
(***************************************************************************)
\* u32::to_le_bytes, for the values the model encodes (below 2^31).
U32LE(n) == <<n % 256, (n \div 256) % 256, (n \div 65536) % 256, n \div 16777216>>

\* u64::to_le_bytes of a u64 given as limbs <<l3, l2, l1, l0>>, l3 the most
\* significant 16 bits.
U64LE(u) ==
    <<u[4] % 256, u[4] \div 256, u[3] % 256, u[3] \div 256,
      u[2] % 256, u[2] \div 256, u[1] % 256, u[1] \div 256>>

\* String::as_bytes for ASCII text: the characters of codes 32..126 (other
\* punctuation is spelled c<code>).
AsciiPrintable ==
    <<
      " ","!","c34","c35","c36","c37","c38","c39","c40","c41","c42","c43",
      ",","-",".","c47","0","1","2","3","4","5","6","7",
      "8","9","c58","c59","c60","c61","c62","?","c64","A","B","C",
      "D","E","F","G","H","I","J","K","L","M","N","O",
      "P","Q","R","S","T","U","V","W","X","Y","Z","c91",
      "c92","c93","c94","c95","c96","a","b","c","d","e","f","g",
      "h","i","j","k","l","m","n","o","p","q","r","s",
      "t","u","v","w","x","y","z","c123","c124","c125","c126">>

AsBytes(s) == [i \in 1..Len(s) |-> IndexIn(AsciiPrintable, s[i]) + 32]

(***************************************************************************)
(* Hashing and the curve, abstracted                                       *)
(***************************************************************************)
\* A running checksum over x[lo..hi], split in halves like BaseConvert.
RECURSIVE WeightedSum(_, _, _, _, _)
WeightedSum(x, lo, hi, w, acc) ==
    IF lo > hi THEN acc
    ELSE IF lo = hi THEN (acc * w + x[lo] + lo) % 65521
    ELSE LET mid  == (lo + hi) \div 2
             left == WeightedSum(x, lo, mid, w, acc)
         IN  IF left >= 0 THEN WeightedSum(x, mid + 1, hi, w, left) ELSE 0

\* Stand-in for SHA-256 / SHA-512: a deterministic 32-byte digest.
Digest32(x) ==
    LET a == WeightedSum(x, 1, Len(x), 31, 7)
        b == WeightedSum(x, 1, Len(x), 257, 11)
    IN  [i \in 1..32 |->
           (((a + i) % 251) * ((b + 2 * i + 1) % 241) + a \div 256 + i * (b % 256)) % 256]

\* Stand-in for "these 32 bytes decompress to a point of the curve".
IsOnCurve(bytes) == Len(bytes) = 32 /\ bytes[32] % 2 = 0

\* ed25519_dalek::PublicKey::from(&SecretKey): the public key of a seed.
PublicOf(seed) ==
    LET d == Digest32(seed \o <<1>>)
    IN  [d EXCEPT ![32] = (d[32] \div 2) * 2]

\* The S half of a signature with nonce point R, for key A and message m.
ScalarS(R, A, m) ==
    LET d == Digest32(R \o A \o m)
    IN  [d EXCEPT ![32] = d[32] % 32]

(***************************************************************************)
(* solana_sdk: Pubkey, Keypair, Signature                                  *)
(***************************************************************************)
PUBKEY_BYTES == 32

MAX_BASE58_LEN == 44

KEYPAIR_LENGTH == 64

SIGNATURE_BYTES == 64

\* Pubkey::from_str(s).ok()
PubkeyFromStr(s) ==
    IF Len(s) > MAX_BASE58_LEN THEN None
    ELSE LET d == B58Decode(s)
         IN  IF IsSome(d) /\ Len(Unwrap(d)) = PUBKEY_BYTES THEN d ELSE None

\* ed25519_dalek::PublicKey::from_bytes(b).ok()
PublicKeyFromBytes(b) ==
    IF Len(b) = PUBKEY_BYTES /\ IsOnCurve(b) THEN Some(b) ELSE None

\* Mutant (C5): from_bytes without the agreement of the two halves.
KeypairFromBytesUnchecked(v) ==
    IF Len(v) < KEYPAIR_LENGTH THEN None
    ELSE LET secret == SubSeq(v, 1, 32)
             public == PublicKeyFromBytes(SubSeq(v, 33, Len(v)))
         IN  IF IsSome(public)
             THEN Some([secret |-> secret, public |-> Unwrap(public)])
             ELSE None

\* Keypair::from_bytes(v).ok(): the seed, a public key that is a curve
\* point, and the two agreeing.
KeypairFromBytes(v) ==
    IF Len(v) < KEYPAIR_LENGTH THEN None
    ELSE LET secret == SubSeq(v, 1, 32)
             public == PublicKeyFromBytes(SubSeq(v, 33, Len(v)))
         IN  IF IsSome(public) /\ Unwrap(public) = PublicOf(secret)
             THEN Some([secret |-> secret, public |-> Unwrap(public)])
             ELSE None

\* Keypair::to_bytes
KeypairToBytes(kp) == kp.secret \o kp.public

\* Keypair::sign_message: deterministic, 64 bytes R || S.
SignMessage(kp, m) ==
    LET R == Digest32(kp.secret \o m \o <<2>>)
    IN  R \o ScalarS(R, kp.public, m)

\* Mutant (C3): a 64-byte signature is also required to have a reduced
\* scalar, so an unreduced one becomes a format error.
SignatureTryFromReduced(b) ==
    IF Len(b) = SIGNATURE_BYTES /\ b[64] < 32 THEN Some(b) ELSE None

\* Signature::try_from(&[u8]).ok()
SignatureTryFrom(b) == IF Len(b) = SIGNATURE_BYTES THEN Some(b) ELSE None

\* Signature::verify(pubkey_bytes, message_bytes): every failure is `false`.
SignatureVerify(sig, pubkeyBytes, m) ==
    /\ IsSome(PublicKeyFromBytes(pubkeyBytes))
    /\ sig[64] < 32
    /\ SubSeq(sig, 33, 64) = ScalarS(SubSeq(sig, 1, 32), pubkeyBytes, m)

(***************************************************************************)
(* Program ids and derived addresses                                       *)
(***************************************************************************)
\* system_program::id()
SystemProgramId == Repeat(0, 32)

\* spl_token::id()
TokenProgramId ==
    Unwrap(B58Decode(<<"T","o","k","e","n","k","e","g","Q","f","e","Z","y","i",
                       "N","w","A","J","b","N","b","G","K","P","F","X","C","W",
                       "u","B","v","f","9","S","s","6","2","3","V","Q","5","D",
                       "A">>))

\* sysvar::rent::id()
RentSysvarId ==
    Unwrap(B58Decode(<<"S","y","s","v","a","r","R","e","n","t">> \o Repeat("1", 33)))

\* spl_associated_token_account::id()
AssociatedTokenProgramId ==
    Unwrap(B58Decode(<<"A","T","o","k","e","n","G","P","v","b","d","G","V","x",
                       "r","1","b","2","h","v","Z","b","s","i","q","W","5","x",
                       "W","H","2","5","e","f","T","N","s","L","J","A","8","k",
                       "n","L">>))

\* Pubkey::find_program_address: the first bump, from 255 down, whose digest
\* is off the curve.
RECURSIVE FindProgramAddress(_, _, _)
FindProgramAddress(seeds, programId, bump) ==
    LET h == Digest32(seeds \o <<bump>> \o programId
                      \o AsBytes(<<"P","r","o","g","r","a","m","D","e","r","i",
                                   "v","e","d","A","d","d","r","e","s","s">>))
    IN  IF ~IsOnCurve(h) \/ bump = 0 THEN h
        ELSE FindProgramAddress(seeds, programId, bump - 1)

\* Mutant (C8): the wallet itself is taken for its token account.
WalletAsTokenAccount(wallet, mint) == wallet

\* get_associated_token_address(wallet, mint)
get_associated_token_address(wallet, mint) ==
    FindProgramAddress(wallet \o TokenProgramId \o mint, AssociatedTokenProgramId, 255)

(***************************************************************************)
(* Instruction builders                                                    *)
(***************************************************************************)
\* AccountMeta::new(pubkey, is_signer)
AccountMetaNew(pubkey, isSigner) ==
    [pubkey |-> pubkey, is_signer |-> isSigner, is_writable |-> TRUE]

\* AccountMeta::new_readonly(pubkey, is_signer)
AccountMetaReadonly(pubkey, isSigner) ==
    [pubkey |-> pubkey, is_signer |-> isSigner, is_writable |-> FALSE]

\* Mutant (C9): the absent freeze authority is written as a 4-byte option
\* tag, as account state packs it.
initialize_mint_WideOption(tokenProgramId, mintPubkey, mintAuthority, freezeAuthority, decimals) ==
    IF tokenProgramId # TokenProgramId THEN None
    ELSE Some([program_id |-> tokenProgramId,
               accounts   |-> <<AccountMetaNew(mintPubkey, FALSE),
                                AccountMetaReadonly(RentSysvarId, FALSE)>>,
               data       |-> <<0, decimals>> \o mintAuthority \o <<0, 0, 0, 0>>])

\* spl_token::instruction::initialize_mint; None is Err(IncorrectProgramId).
initialize_mint(tokenProgramId, mintPubkey, mintAuthority, freezeAuthority, decimals) ==
    IF tokenProgramId # TokenProgramId THEN None
    ELSE Some([program_id |-> tokenProgramId,
               accounts   |-> <<AccountMetaNew(mintPubkey, FALSE),
                                AccountMetaReadonly(RentSysvarId, FALSE)>>,
               data       |-> <<0, decimals>> \o mintAuthority
                              \o (IF IsSome(freezeAuthority)
                                  THEN <<1>> \o Unwrap(freezeAuthority)
                                  ELSE <<0>>)])

\* Mutant (C7): the variant tag is written as one byte, as SPL-Token does.
system_transfer_ByteTag(fromPubkey, toPubkey, lamports) ==
    [program_id |-> SystemProgramId,
     accounts   |-> <<AccountMetaNew(fromPubkey, TRUE),
                      AccountMetaNew(toPubkey, FALSE)>>,
     data       |-> <<2>> \o U64LE(lamports)]

\* system_instruction::transfer: bincode of SystemInstruction::Transfer.
system_transfer(fromPubkey, toPubkey, lamports) ==
    [program_id |-> SystemProgramId,
     accounts   |-> <<AccountMetaNew(fromPubkey, TRUE),
                      AccountMetaNew(toPubkey, FALSE)>>,
     data       |-> U32LE(2) \o U64LE(lamports)]

\* spl_token::instruction::transfer
spl_transfer(tokenProgramId, source, destination, authority, signers, amount) ==
    IF tokenProgramId # TokenProgramId THEN None
    ELSE Some([program_id |-> tokenProgramId,
               accounts   |-> <<AccountMetaNew(source, FALSE),
                                AccountMetaNew(destination, FALSE),
                                AccountMetaReadonly(authority, signers = <<>>)>>
                              \o [i \in 1..Len(signers) |->
                                     AccountMetaReadonly(signers[i], TRUE)],
               data       |-> <<3>> \o U64LE(amount)])

\* spl_token::instruction::mint_to
mint_to(tokenProgramId, mint, account, owner, signers, amount) ==
    IF tokenProgramId # TokenProgramId THEN None
    ELSE Some([program_id |-> tokenProgramId,
               accounts   |-> <<AccountMetaNew(mint, FALSE),
                                AccountMetaNew(account, FALSE),
                                AccountMetaReadonly(owner, signers = <<>>)>>
                              \o [i \in 1..Len(signers) |->
                                     AccountMetaReadonly(signers[i], TRUE)],
               data       |-> <<7>> \o U64LE(amount)])

(***************************************************************************)
(* Replies                                                                 *)
(***************************************************************************)
OK == 200

BAD_REQUEST == 400

METHOD_NOT_ALLOWED == 405

\* (status, Json(Response::Error { success: false, error }))
ErrorReply(status, error) ==
    [status |-> status, content |-> "json",
     body |-> [success |-> FALSE, error |-> error]]

\* (StatusCode::OK, Json(Response::Success { success: true, data }))
SuccessReply(data) ==
    [status |-> OK, content |-> "json",
     body |-> [success |-> TRUE, data |-> data]]

\* AccountMetaInfo { pubkey, is_signer, is_writable }
AccountMetaInfo(meta) ==
    [pubkey      |-> B58Encode(meta.pubkey),
     is_signer   |-> meta.is_signer,
     is_writable |-> meta.is_writable]

\* SendTokenResponse { pubkey, isSigner }
SendTokenResponse(meta) ==
    [pubkey |-> B58Encode(meta.pubkey), isSigner |-> meta.is_signer]

(***************************************************************************)
(* Handlers: each a function from the decoded payload to the reply         *)
(***************************************************************************)
root == [status |-> OK, content |-> "text", body |-> "Hello, World!"]

incorrect_method == ErrorReply(METHOD_NOT_ALLOWED, "Method not allowed")

\* `seed` is what the random source of Keypair::new() yields.
create_keypair(seed) ==
    LET keypair == [secret |-> seed, public |-> PublicOf(seed)]
    IN  SuccessReply([pubkey |-> B58Encode(keypair.public),
                      secret |-> B58Encode(KeypairToBytes(keypair))])

create_token(payload) ==
    IF ~(IsSome(payload.mint) /\ IsSome(payload.mintAuthority) /\ IsSome(payload.decimals))
    THEN ErrorReply(BAD_REQUEST, "Missing required fields")
    ELSE
    LET mint_pubkey    == PubkeyFromStr(Unwrap(payload.mint))
        mint_authority == PubkeyFromStr(Unwrap(payload.mintAuthority))
        ix == initialize_mint(TokenProgramId, Unwrap(mint_pubkey),
                              Unwrap(mint_authority), None, Unwrap(payload.decimals))
    IN  IF ~IsSome(mint_pubkey)
        THEN ErrorReply(BAD_REQUEST, "Invalid mint address")
        ELSE IF ~IsSome(mint_authority)
        THEN ErrorReply(BAD_REQUEST, "Invalid mint authority address")
        ELSE IF ~IsSome(ix)
        THEN ErrorReply(BAD_REQUEST, "Failed to build InitializeMint instruction")
        ELSE SuccessReply(
               [program_id       |-> B58Encode(Unwrap(ix).program_id),
                accounts         |-> [i \in 1..Len(Unwrap(ix).accounts) |->
                                         AccountMetaInfo(Unwrap(ix).accounts[i])],
                instruction_data |-> B64Encode(Unwrap(ix).data)])

\* Mutant (C1): the secret is parsed before the fields are counted.
sign_message_ParseFirst(payload) ==
    LET decoded == IF IsSome(payload.secret)
                   THEN B58Decode(Unwrap(payload.secret)) ELSE None
        keypair == IF IsSome(decoded) THEN KeypairFromBytes(Unwrap(decoded)) ELSE None
        message == Unwrap(payload.message)
        signature == SignMessage(Unwrap(keypair), AsBytes(message))
    IN  IF IsSome(payload.secret) /\ ~IsSome(keypair)
        THEN ErrorReply(BAD_REQUEST, "Invalid secret key")
        ELSE IF ~(IsSome(payload.message) /\ IsSome(payload.secret))
        THEN ErrorReply(BAD_REQUEST, "Missing required fields")
        ELSE SuccessReply(
               [signature  |-> B64Encode(signature),
                public_key |-> B58Encode(Unwrap(keypair).public),
                message    |-> message])

sign_message(payload) ==
    IF ~(IsSome(payload.message) /\ IsSome(payload.secret))
    THEN ErrorReply(BAD_REQUEST, "Missing required fields")
    ELSE
    LET message == Unwrap(payload.message)
        decoded == B58Decode(Unwrap(payload.secret))
        keypair == IF IsSome(decoded) THEN KeypairFromBytes(Unwrap(decoded)) ELSE None
        signature == SignMessage(Unwrap(keypair), AsBytes(message))
    IN  IF ~IsSome(keypair)
        THEN ErrorReply(BAD_REQUEST, "Invalid secret key")
        ELSE SuccessReply(
               [signature  |-> B64Encode(signature),
                public_key |-> B58Encode(Unwrap(keypair).public),
                message    |-> message])

\* Mutant (C4): what is verified is the text of the public key, not the
\* message.
verify_message_WrongBytes(payload) ==
    IF ~(IsSome(payload.signature) /\ IsSome(payload.message) /\ IsSome(payload.pubkey))
    THEN ErrorReply(BAD_REQUEST, "Missing required fields")
    ELSE
    LET message         == Unwrap(payload.message)
        signature_bytes == B64Decode(Unwrap(payload.signature))
        signature       == SignatureTryFrom(Unwrap(signature_bytes))
        public_key      == PubkeyFromStr(Unwrap(payload.pubkey))
    IN  IF ~IsSome(signature_bytes)
        THEN ErrorReply(BAD_REQUEST, "Invalid signature encoding")
        ELSE IF ~IsSome(signature)
        THEN ErrorReply(BAD_REQUEST, "Invalid signature format")
        ELSE IF ~IsSome(public_key)
        THEN ErrorReply(BAD_REQUEST, "Invalid public key")
        ELSE SuccessReply(
               [valid   |-> SignatureVerify(Unwrap(signature), Unwrap(public_key),
                                            AsBytes(Unwrap(payload.pubkey))),
                message |-> message,
                pubkey  |-> B58Encode(Unwrap(public_key))])

verify_message(payload) ==
    IF ~(IsSome(payload.signature) /\ IsSome(payload.message) /\ IsSome(payload.pubkey))
    THEN ErrorReply(BAD_REQUEST, "Missing required fields")
    ELSE
    LET message         == Unwrap(payload.message)
        signature_bytes == B64Decode(Unwrap(payload.signature))
        signature       == SignatureTryFrom(Unwrap(signature_bytes))
        public_key      == PubkeyFromStr(Unwrap(payload.pubkey))
    IN  IF ~IsSome(signature_bytes)
        THEN ErrorReply(BAD_REQUEST, "Invalid signature encoding")
        ELSE IF ~IsSome(signature)
        THEN ErrorReply(BAD_REQUEST, "Invalid signature format")
        ELSE IF ~IsSome(public_key)
        THEN ErrorReply(BAD_REQUEST, "Invalid public key")
        ELSE SuccessReply(
               [valid   |-> SignatureVerify(Unwrap(signature), Unwrap(public_key),
                                            AsBytes(message)),
                message |-> message,
                pubkey  |-> B58Encode(Unwrap(public_key))])

\* Mutant (C10): `to` is parsed before `from`.
send_sol_ToFirst(payload) ==
    IF ~(IsSome(payload.from) /\ IsSome(payload.to) /\ IsSome(payload.lamports))
    THEN ErrorReply(BAD_REQUEST, "Missing required fields")
    ELSE
    LET from == PubkeyFromStr(Unwrap(payload.from))
        to   == PubkeyFromStr(Unwrap(payload.to))
        ix   == system_transfer(Unwrap(from), Unwrap(to), Unwrap(payload.lamports))
    IN  IF ~IsSome(to)
        THEN ErrorReply(BAD_REQUEST, "Invalid to address")
        ELSE IF ~IsSome(from)
        THEN ErrorReply(BAD_REQUEST, "Invalid from address")
        ELSE SuccessReply(
               [program_id       |-> B58Encode(ix.program_id),
                accounts         |-> [i \in 1..Len(ix.accounts) |->
                                         B58Encode(ix.accounts[i].pubkey)],
                instruction_data |-> B64Encode(ix.data)])

send_sol(payload) ==
    IF ~(IsSome(payload.from) /\ IsSome(payload.to) /\ IsSome(payload.lamports))
    THEN ErrorReply(BAD_REQUEST, "Missing required fields")
    ELSE
    LET from == PubkeyFromStr(Unwrap(payload.from))
        to   == PubkeyFromStr(Unwrap(payload.to))
        ix   == system_transfer(Unwrap(from), Unwrap(to), Unwrap(payload.lamports))
    IN  IF ~IsSome(from)
        THEN ErrorReply(BAD_REQUEST, "Invalid from address")
        ELSE IF ~IsSome(to)
        THEN ErrorReply(BAD_REQUEST, "Invalid to address")
        ELSE SuccessReply(
               [program_id       |-> B58Encode(ix.program_id),
                accounts         |-> [i \in 1..Len(ix.accounts) |->
                                         B58Encode(ix.accounts[i].pubkey)],
                instruction_data |-> B64Encode(ix.data)])

send_token(payload) ==
    IF ~(IsSome(payload.destination) /\ IsSome(payload.mint)
         /\ IsSome(payload.owner) /\ IsSome(payload.amount))
    THEN ErrorReply(BAD_REQUEST, "Missing required fields")
    ELSE
    LET destination == PubkeyFromStr(Unwrap(payload.destination))
        mint        == PubkeyFromStr(Unwrap(payload.mint))
        owner       == PubkeyFromStr(Unwrap(payload.owner))
        source_ata  == get_associated_token_address(Unwrap(owner), Unwrap(mint))
        dest_ata    == get_associated_token_address(Unwrap(destination), Unwrap(mint))
        ix == spl_transfer(TokenProgramId, source_ata, dest_ata, Unwrap(owner),
                           <<>>, Unwrap(payload.amount))
    IN  IF ~IsSome(destination)
        THEN ErrorReply(BAD_REQUEST, "Invalid destination address")
        ELSE IF ~IsSome(mint)
        THEN ErrorReply(BAD_REQUEST, "Invalid mint address")
        ELSE IF ~IsSome(owner)
        THEN ErrorReply(BAD_REQUEST, "Invalid owner address")
        ELSE IF ~IsSome(ix)
        THEN ErrorReply(BAD_REQUEST, "Failed to build transfer instruction")
        ELSE SuccessReply(
               [program_id       |-> B58Encode(Unwrap(ix).program_id),
                accounts         |-> [i \in 1..Len(Unwrap(ix).accounts) |->
                                         SendTokenResponse(Unwrap(ix).accounts[i])],
                instruction_data |-> B64Encode(Unwrap(ix).data)])

\* Mutant (C6): the raw destination is handed to mint_to.
MintDestinationRaw(destination, mint) == destination

\* The destination account handed to mint_to.
MintDestinationAccount(destination, mint) ==
    get_associated_token_address(destination, mint)

mint_token(payload) ==
    IF ~(IsSome(payload.mint) /\ IsSome(payload.authority)
         /\ IsSome(payload.destination) /\ IsSome(payload.amount))
    THEN ErrorReply(BAD_REQUEST, "Missing required fields")
    ELSE
    LET mint           == PubkeyFromStr(Unwrap(payload.mint))
        mint_authority == PubkeyFromStr(Unwrap(payload.authority))
        destination    == PubkeyFromStr(Unwrap(payload.destination))
        dest_ata       == MintDestinationAccount(Unwrap(destination), Unwrap(mint))
        ix == mint_to(TokenProgramId, Unwrap(mint), dest_ata, Unwrap(mint_authority),
                      <<>>, Unwrap(payload.amount))
    IN  IF ~IsSome(mint)
        THEN ErrorReply(BAD_REQUEST, "Invalid mint address")
        ELSE IF ~IsSome(mint_authority)
        THEN ErrorReply(BAD_REQUEST, "Invalid authority address")
        ELSE IF ~IsSome(destination)
        THEN ErrorReply(BAD_REQUEST, "Invalid destination address")
        ELSE IF ~IsSome(ix)
        THEN ErrorReply(BAD_REQUEST, "Failed to build mint_to instruction")
        ELSE SuccessReply(
               [program_id       |-> B58Encode(Unwrap(ix).program_id),
                accounts         |-> [i \in 1..Len(Unwrap(ix).accounts) |->
                                         AccountMetaInfo(Unwrap(ix).accounts[i])],
                instruction_data |-> B64Encode(Unwrap(ix).data)])

(***************************************************************************)
(* Requests the dispatcher may hand over                                   *)
(***************************************************************************)
NumKeys == 2

MaxMsgLen == 1

Keys == 1..NumKeys

\* The 32-byte seed of the k-th keypair.
SeedBytes(k) == [i \in 1..32 |-> (k * 37 + i * 11) % 256]

KeypairOf(k) == [secret |-> SeedBytes(k), public |-> PublicOf(SeedBytes(k))]

NotBase58 == <<"n","o","t","-","b","a","s","e","5","8">>

\* base58 text that decodes, but to fewer than 32 bytes.
ShortBase58 == <<"a","b","c">>

ValidAddressStrings ==
    {B58Encode(SystemProgramId)} \cup {B58Encode(KeypairOf(k).public) : k \in Keys}

InvalidAddressStrings == {NotBase58, ShortBase58}

\* A valid address that is no public key: an associated token account.
OffCurveAddress ==
    B58Encode(get_associated_token_address(KeypairOf(1).public, SystemProgramId))

AddressField == {None} \cup {Some(s) : s \in ValidAddressStrings \cup InvalidAddressStrings}

\* The address fields of the two token endpoints, which take three each.
TokenAddressField == {None} \cup {Some(s) : s \in ValidAddressStrings \cup {NotBase58}}

U64Zero == <<0, 0, 0, 0>>

U64Max == <<65535, 65535, 65535, 65535>>

\* 0, 0x0102030405060708 and 2^64 - 1
U64Values == {U64Zero, <<258, 772, 1286, 1800>>, U64Max}

U64Field == {None} \cup {Some(u) : u \in U64Values}

\* ... and 1000 lamports
LamportsField == U64Field \cup {Some(<<0, 0, 0, 1000>>)}

U8Field == {None} \cup {Some(d) : d \in {0, 9, 255}}

MessageAlphabet == {"h", "X"}

Messages == UNION {[1..n -> MessageAlphabet] : n \in 0..MaxMsgLen}

MessageField == {None} \cup {Some(m) : m \in Messages}

ValidSecretStrings == {B58Encode(KeypairToBytes(KeypairOf(k))) : k \in Keys}

\* 64 bytes whose second half is another keypair's public key.
MismatchedSecret(k) ==
    B58Encode(SeedBytes(k) \o KeypairOf((k % NumKeys) + 1).public)

\* 64 bytes whose second half is not a point of the curve.
OffCurveSecret(k) ==
    LET pub == KeypairOf(k).public
    IN  B58Encode(SeedBytes(k) \o [pub EXCEPT ![32] = pub[32] + 1])

InvalidSecretStrings ==
    {NotBase58, B58Encode(KeypairOf(1).public),
     B58Encode(KeypairToBytes(KeypairOf(1)) \o <<0>>),
     MismatchedSecret(1), OffCurveSecret(1)}

SecretField == {None} \cup {Some(s) : s \in ValidSecretStrings \cup InvalidSecretStrings}

\* What sign_message returns as `signature` for each keypair and message.
ProducedSignatures ==
    [k \in Keys |-> [m \in Messages |->
        B64Encode(SignMessage(KeypairOf(k), AsBytes(m)))]]

ProducedSignature(k, m) == ProducedSignatures[k][m]

NotBase64 == <<"a","b","c">>

SignatureStrings ==
    {ProducedSignature(k, m) : k \in Keys, m \in Messages}
    \cup {NotBase64, B64Encode(<<1, 2, 3>>), B64Encode(Repeat(255, 64))}

SignatureField == {None} \cup {Some(s) : s \in SignatureStrings}

KnownPaths ==
    {"/keypair", "/token/create", "/token/mint", "/message/sign",
     "/message/verify", "/send/sol", "/send/token"}

Methods == {"GET", "POST", "PUT", "DELETE", "PATCH"}

NoPayload == [keys \in {} |-> None]

Post(path, payloads) == {[method |-> "POST", path |-> path, body |-> b] : b \in payloads}

Requests ==
    {[method |-> m, path |-> p, body |-> NoPayload] :
        m \in Methods \ {"POST"}, p \in KnownPaths \cup {"/"}}
    \cup Post("/", {NoPayload})
    \cup Post("/keypair", {NoPayload})
    \cup Post("/token/create",
              [mint : AddressField, mintAuthority : AddressField, decimals : U8Field])
    \cup Post("/token/mint",
              [mint : TokenAddressField, destination : TokenAddressField,
               authority : TokenAddressField, amount : U64Field])
    \cup Post("/message/sign", [message : MessageField, secret : SecretField])
    \cup Post("/message/verify",
              [signature : SignatureField, message : MessageField,
               pubkey : AddressField \cup {Some(OffCurveAddress)}])
    \cup Post("/send/sol",
              [from : AddressField, to : AddressField, lamports : LamportsField])
    \cup Post("/send/token",
              [destination : TokenAddressField, mint : TokenAddressField,
               owner : TokenAddressField, amount : U64Field])

(***************************************************************************)
(* The router                                                              *)
(***************************************************************************)
Init == request = None /\ reply = None

\* A request arrives; its body is what the Json<T> extractor made of it, a
\* record of optional fields.
Receive ==
    /\ request = None
    /\ reply = None
    /\ \E r \in Requests : request' = Some(r)
    /\ UNCHANGED reply

\* The request in hand is for `method` on `path` and is not answered yet.
Routed(method, path) ==
    /\ IsSome(request)
    /\ reply = None
    /\ Unwrap(request).method = method
    /\ Unwrap(request).path = path

Payload == Unwrap(request).body

Answer(r) == reply' = Some(r) /\ UNCHANGED request

GetRoot == Routed("GET", "/") /\ Answer(root)

GetIncorrectMethod ==
    \E p \in KnownPaths : Routed("GET", p) /\ Answer(incorrect_method)

PostKeypair ==
    /\ Routed("POST", "/keypair")
    /\ \E k \in Keys : Answer(create_keypair(SeedBytes(k)))

PostTokenCreate == Routed("POST", "/token/create") /\ Answer(create_token(Payload))

PostTokenMint == Routed("POST", "/token/mint") /\ Answer(mint_token(Payload))

PostMessageSign == Routed("POST", "/message/sign") /\ Answer(sign_message(Payload))

PostMessageVerify == Routed("POST", "/message/verify") /\ Answer(verify_message(Payload))

PostSendSol == Routed("POST", "/send/sol") /\ Answer(send_sol(Payload))

PostSendToken == Routed("POST", "/send/token") /\ Answer(send_token(Payload))

\* The methods the router registers for a path.
RegisteredMethods(path) == IF path = "/" THEN {"GET"} ELSE {"GET", "POST"}

\* What the router answers for a method no route of the path registers:
\* the framework's own 405, which carries no body.
MethodFallbackReply == [status |-> METHOD_NOT_ALLOWED, content |-> "none", body |-> ""]

MethodFallback ==
    /\ IsSome(request)
    /\ reply = None
    /\ Unwrap(request).method \notin RegisteredMethods(Unwrap(request).path)
    /\ Answer(MethodFallbackReply)

\* The reply is published and the request's scope ends.
Publish ==
    /\ IsSome(reply)
    /\ request' = None
    /\ reply' = None

Next ==
    \/ Receive
    \/ GetRoot
    \/ GetIncorrectMethod
    \/ PostKeypair
    \/ PostTokenCreate
    \/ PostTokenMint
    \/ PostMessageSign
    \/ PostMessageVerify
    \/ PostSendSol
    \/ PostSendToken
    \/ MethodFallback
    \/ Publish

Spec == Init /\ [][Next]_vars

(***************************************************************************)
(* Vocabulary of the properties                                            *)
(***************************************************************************)
Req == Unwrap(request)

Rep == Unwrap(reply)

\* A POST to `path` has been answered and the reply is not yet published.
Answered(path) ==
    /\ IsSome(request)
    /\ IsSome(reply)
    /\ Req.method = "POST"
    /\ Req.path = path

IsErrorReply(r, status, error) ==
    /\ r.status = status
    /\ r.content = "json"
    /\ r.body = [success |-> FALSE, error |-> error]

IsSuccessReply(r) ==
    /\ r.status = 200
    /\ r.content = "json"
    /\ DOMAIN r.body = {"success", "data"}
    /\ r.body.success = TRUE

\* The request fields each body-taking endpoint requires.
RequiredFields(path) ==
    CASE path = "/token/create"   -> {"mint", "mintAuthority", "decimals"}
      [] path = "/token/mint"     -> {"mint", "destination", "authority", "amount"}
      [] path = "/message/sign"   -> {"message", "secret"}
      [] path = "/message/verify" -> {"signature", "message", "pubkey"}
      [] path = "/send/sol"       -> {"from", "to", "lamports"}
      [] path = "/send/token"     -> {"destination", "mint", "owner", "amount"}

BodyPaths == KnownPaths \ {"/keypair"}

AllPresent(path) == \A f \in RequiredFields(path) : Req.body[f] # None

Field(f) == Unwrap(Req.body[f])

\* The text is the base58 form of some 32 bytes.
IsAddress(s) ==
    /\ Len(s) <= 44
    /\ LET bytes == B58Decode(s)
       IN  IsSome(bytes) /\ Len(Unwrap(bytes)) = 32

\* The k-th byte (k = 0 the least significant) of a u64 given by its limbs.
ByteOfU64(u, k) == (u[4 - (k \div 2)] \div (IF k % 2 = 0 THEN 1 ELSE 256)) % 256

LittleEndian64(u) == [i \in 1..8 |-> ByteOfU64(u, i - 1)]

TokenProgramText ==
    <<"T","o","k","e","n","k","e","g","Q","f","e","Z","y","i","N","w","A","J",
      "b","N","b","G","K","P","F","X","C","W","u","B","v","f","9","S","s","6",
      "2","3","V","Q","5","D","A">>

RentSysvarText == <<"S","y","s","v","a","r","R","e","n","t">> \o Repeat("1", 33)

SystemProgramText == Repeat("1", 32)

(***************************************************************************)
(* C1                                                                      *)
(***************************************************************************)
SomeFieldMissing(path) == \E f \in RequiredFields(path) : Req.body[f] = None

\* C1: in each of the six body-taking handlers, a request that lacks any
\* required field is answered 400 "Missing required fields", whatever the
\* fields that are present hold.
C1_MissingFieldFirst ==
    \A p \in BodyPaths :
        (Answered(p) /\ SomeFieldMissing(p))
            => IsErrorReply(Rep, 400, "Missing required fields")

\* A mint request without `amount` whose `mint` would not parse has been
\* answered with the missing-field error.
C1_Witness ==
    /\ Answered("/token/mint")
    /\ Req.body.amount = None
    /\ Req.body.mint = Some(NotBase58)
    /\ Req.body.destination # None
    /\ IsErrorReply(Rep, 400, "Missing required fields")

(***************************************************************************)
(* C2                                                                      *)
(***************************************************************************)
\* C2: every method other than POST on a known path is answered 405 with the
\* JSON body {success:false, error:"Method not allowed"}.
C2_MethodNotAllowedJson ==
    (IsSome(request) /\ IsSome(reply)
       /\ Req.path \in KnownPaths /\ Req.method # "POST")
        => IsErrorReply(Rep, 405, "Method not allowed")

(***************************************************************************)
(* C3                                                                      *)
(***************************************************************************)
\* The signature text decodes, from base64, to exactly 64 bytes.
IsSignatureText(s) ==
    LET bytes == B64Decode(s)
    IN  IsSome(bytes) /\ Len(Unwrap(bytes)) = 64

VerifyWellFormed ==
    /\ AllPresent("/message/verify")
    /\ IsSignatureText(Field("signature"))
    /\ IsAddress(Field("pubkey"))

\* C3: verify_message answers a structurally well-formed request with 200,
\* success and a boolean `valid` - false, never an error, for a signature
\* that is not the signer's over that message; and it answers with an error
\* only when the request is not well-formed.
C3_VerifyNeverErrsOnBadSignature ==
    Answered("/message/verify") =>
        IF VerifyWellFormed
        THEN /\ IsSuccessReply(Rep)
             /\ Rep.body.data.valid \in BOOLEAN
             /\ \A k \in Keys, m \in Messages :
                  (/\ Field("signature") = ProducedSignature(k, m)
                   /\ \/ Field("message") # m
                      \/ Field("pubkey") # B58Encode(KeypairOf(k).public))
                      => Rep.body.data.valid = FALSE
             /\ Field("signature") = B64Encode(Repeat(255, 64))
                  => Rep.body.data.valid = FALSE
        ELSE /\ Rep.status = 400
             /\ Rep.content = "json"
             /\ Rep.body.success = FALSE

\* A signature made over "h" is submitted with the message "X": 200, valid
\* false.
C3_Witness ==
    /\ Answered("/message/verify")
    /\ Req.body.signature = Some(ProducedSignature(1, <<"h">>))
    /\ Req.body.message = Some(<<"X">>)
    /\ Req.body.pubkey = Some(B58Encode(KeypairOf(1).public))
    /\ Rep.status = 200
    /\ Rep.body.data.valid = FALSE

(***************************************************************************)
(* C4                                                                      *)
(***************************************************************************)
\* C4: what sign_message returns for a valid secret - `signature` and
\* `public_key` - submitted with the same message to verify_message yields
\* 200 with valid = true; the sign reply echoes the message and names the
\* public key of the secret's seed.
C4_SignThenVerify ==
    (Answered("/message/sign") /\ IsSuccessReply(Rep)) =>
        LET data  == Rep.body.data
            again == verify_message([signature |-> Some(data.signature),
                                     message   |-> Some(data.message),
                                     pubkey    |-> Some(data.public_key)])
        IN  /\ data.message = Field("message")
            /\ data.public_key =
                 B58Encode(PublicOf(SubSeq(Unwrap(B58Decode(Field("secret"))), 1, 32)))
            /\ IsSuccessReply(again)
            /\ again.body.data.valid = TRUE

\* The second keypair has signed "X".
C4_Witness ==
    /\ Answered("/message/sign")
    /\ Req.body.secret = Some(B58Encode(KeypairToBytes(KeypairOf(2))))
    /\ Req.body.message = Some(<<"X">>)
    /\ IsSuccessReply(Rep)
    /\ Rep.body.data.signature = ProducedSignature(2, <<"X">>)

(***************************************************************************)
(* C5                                                                      *)
(***************************************************************************)
\* The text is the base58 form of 64 bytes, the last 32 being the public
\* key of the first 32.
IsConsistentSecret(s) ==
    LET bytes == B58Decode(s)
    IN  /\ IsSome(bytes)
        /\ Len(Unwrap(bytes)) = 64
        /\ SubSeq(Unwrap(bytes), 33, 64) = PublicOf(SubSeq(Unwrap(bytes), 1, 32))

\* C5: with both fields present, sign_message signs exactly when the secret
\* is 64 base58-decoded bytes whose second half is the public key of the
\* first; every other secret is answered 400 "Invalid secret key", with no
\* signature in the reply.
C5_SecretAccepted ==
    (Answered("/message/sign") /\ AllPresent("/message/sign")) =>
        IF IsConsistentSecret(Field("secret"))
        THEN IsSuccessReply(Rep) /\ "signature" \in DOMAIN Rep.body.data
        ELSE IsErrorReply(Rep, 400, "Invalid secret key")

\* A secret whose second half is another keypair's public key was refused.
C5_Witness ==
    /\ Answered("/message/sign")
    /\ Req.body.message # None
    /\ Req.body.secret = Some(MismatchedSecret(1))
    /\ IsErrorReply(Rep, 400, "Invalid secret key")

(***************************************************************************)
(* C6                                                                      *)
(***************************************************************************)
\* What C6 says of every field but the second account's address.
MintReplyShape ==
    LET data == Rep.body.data
    IN  /\ data.program_id = TokenProgramText
        /\ Len(data.accounts) = 3
        /\ data.accounts[1] =
             [pubkey |-> Field("mint"), is_signer |-> FALSE, is_writable |-> TRUE]
        /\ data.accounts[2].is_signer = FALSE
        /\ data.accounts[2].is_writable = TRUE
        /\ data.accounts[3] =
             [pubkey |-> Field("authority"), is_signer |-> TRUE, is_writable |-> FALSE]
        /\ B64Decode(data.instruction_data)
             = Some(<<7>> \o LittleEndian64(Field("amount")))

\* C6 as stated: the second account of a successful mint_token reply is the
\* raw `destination` of the request.
C6_RawDestination ==
    (Answered("/token/mint") /\ IsSuccessReply(Rep)) =>
        /\ MintReplyShape
        /\ Rep.body.data.accounts[2].pubkey = Field("destination")

\* C6, amended: a successful mint_token reply lists [mint, destination
\* account, authority] with flags (false,true), (false,true), (true,false)
\* and data 0x07 || amount (little-endian u64), the destination account being
\* the associated token account derived from (destination, mint).
C6_DerivedDestination ==
    (Answered("/token/mint") /\ IsSuccessReply(Rep)) =>
        /\ MintReplyShape
        /\ Rep.body.data.accounts[2].pubkey =
             B58Encode(get_associated_token_address(
                           Unwrap(B58Decode(Field("destination"))),
                           Unwrap(B58Decode(Field("mint")))))

\* A mint to a wallet that is neither the mint nor the authority succeeded.
C6_Witness ==
    /\ Answered("/token/mint")
    /\ IsSuccessReply(Rep)
    /\ Req.body.destination = Some(B58Encode(KeypairOf(1).public))
    /\ Req.body.mint = Some(B58Encode(KeypairOf(2).public))
    /\ Req.body.amount = Some(<<258, 772, 1286, 1800>>)
    /\ Rep.body.data.accounts[2].pubkey # Field("destination")

(***************************************************************************)
(* C7                                                                      *)
(***************************************************************************)
\* C7: a successful send_sol reply names the System program, lists the bare
\* base58 strings [from, to], and carries exactly 12 bytes of data: 02 00 00
\* 00, then lamports as a little-endian u64.
C7_SolTransferLayout ==
    (Answered("/send/sol") /\ IsSuccessReply(Rep)) =>
        LET data == Rep.body.data
        IN  /\ data.program_id = SystemProgramText
            /\ data.accounts = <<Field("from"), Field("to")>>
            /\ IsSome(B64Decode(data.instruction_data))
            /\ Len(Unwrap(B64Decode(data.instruction_data))) = 12
            /\ Unwrap(B64Decode(data.instruction_data))
                 = <<2, 0, 0, 0>> \o LittleEndian64(Field("lamports"))

\* 2^64 - 1 lamports sent from an account to itself.
C7_Witness ==
    /\ Answered("/send/sol")
    /\ IsSuccessReply(Rep)
    /\ Req.body.from = Req.body.to
    /\ Req.body.lamports = Some(U64Max)
    /\ B64Decode(Rep.body.data.instruction_data)
         = Some(<<2, 0, 0, 0, 255, 255, 255, 255, 255, 255, 255, 255>>)

(***************************************************************************)
(* C8                                                                      *)
(***************************************************************************)
\* The associated token account of two addresses given in base58.
AtaText(wallet, mint) ==
    B58Encode(get_associated_token_address(Unwrap(B58Decode(wallet)),
                                           Unwrap(B58Decode(mint))))

\* C8: a successful send_token reply names SPL-Token, lists the accounts
\* [ata(owner, mint), ata(destination, mint), owner] as {pubkey, isSigner}
\* with isSigner false, false, true, and carries the data 0x03 || amount
\* (little-endian u64). No entry is the raw mint: its address shows in the
\* list only as the owner's, when the request names one address as both.
C8_TokenTransferLayout ==
    (Answered("/send/token") /\ IsSuccessReply(Rep)) =>
        LET data == Rep.body.data
        IN  /\ data.program_id = TokenProgramText
            /\ data.accounts =
                 << [pubkey   |-> AtaText(Field("owner"), Field("mint")),
                     isSigner |-> FALSE],
                    [pubkey   |-> AtaText(Field("destination"), Field("mint")),
                     isSigner |-> FALSE],
                    [pubkey   |-> Field("owner"), isSigner |-> TRUE] >>
            /\ (Field("mint") # Field("owner")
                  => \A i \in 1..Len(data.accounts) :
                         data.accounts[i].pubkey # Field("mint"))
            /\ B64Decode(data.instruction_data)
                 = Some(<<3>> \o LittleEndian64(Field("amount")))

\* A transfer between two different wallets of a third address's token.
C8_Witness ==
    /\ Answered("/send/token")
    /\ IsSuccessReply(Rep)
    /\ Req.body.owner = Some(B58Encode(KeypairOf(1).public))
    /\ Req.body.destination = Some(B58Encode(KeypairOf(2).public))
    /\ Req.body.mint = Some(SystemProgramText)
    /\ Req.body.amount = Some(<<258, 772, 1286, 1800>>)
    /\ Rep.body.data.accounts[1].pubkey # Rep.body.data.accounts[2].pubkey

(***************************************************************************)
(* C9                                                                      *)
(***************************************************************************)
\* C9: create_token, once both addresses parse, succeeds for every decimals
\* and replies SPL-Token, the accounts [mint (false,true), Rent sysvar
\* (false,false)], and the data 0x00, decimals, the 32 bytes of
\* mintAuthority, 0x00.
C9_InitializeMintLayout ==
    (Answered("/token/create") /\ AllPresent("/token/create")
       /\ IsAddress(Field("mint")) /\ IsAddress(Field("mintAuthority"))) =>
        /\ IsSuccessReply(Rep)
        /\ LET data == Rep.body.data
           IN  /\ data.program_id = TokenProgramText
               /\ data.accounts =
                    << [pubkey |-> Field("mint"),
                        is_signer |-> FALSE, is_writable |-> TRUE],
                       [pubkey |-> RentSysvarText,
                        is_signer |-> FALSE, is_writable |-> FALSE] >>
               /\ B64Decode(data.instruction_data)
                    = Some(<<0, Field("decimals")>>
                           \o Unwrap(B58Decode(Field("mintAuthority")))
                           \o <<0>>)

\* A mint with 255 decimals was built.
C9_Witness ==
    /\ Answered("/token/create")
    /\ IsSuccessReply(Rep)
    /\ Req.body.decimals = Some(255)
    /\ Req.body.mint # Req.body.mintAuthority
    /\ Len(Unwrap(B64Decode(Rep.body.data.instruction_data))) = 35

(***************************************************************************)
(* C10                                                                     *)
(***************************************************************************)
Check(ok, error) == [ok |-> ok, error |-> error]

\* The parse checks of each endpoint, in the order the claim gives them.
ParseChecks(path) ==
    CASE path = "/token/create" ->
           << Check(IsAddress(Field("mint")), "Invalid mint address"),
              Check(IsAddress(Field("mintAuthority")), "Invalid mint authority address") >>
      [] path = "/token/mint" ->
           << Check(IsAddress(Field("mint")), "Invalid mint address"),
              Check(IsAddress(Field("authority")), "Invalid authority address"),
              Check(IsAddress(Field("destination")), "Invalid destination address") >>
      [] path = "/message/sign" ->
           << Check(IsConsistentSecret(Field("secret")), "Invalid secret key") >>
      [] path = "/message/verify" ->
           << Check(IsSome(B64Decode(Field("signature"))), "Invalid signature encoding"),
              Check(IsSignatureText(Field("signature")), "Invalid signature format"),
              Check(IsAddress(Field("pubkey")), "Invalid public key") >>
      [] path = "/send/sol" ->
           << Check(IsAddress(Field("from")), "Invalid from address"),
              Check(IsAddress(Field("to")), "Invalid to address") >>
      [] path = "/send/token" ->
           << Check(IsAddress(Field("destination")), "Invalid destination address"),
              Check(IsAddress(Field("mint")), "Invalid mint address"),
              Check(IsAddress(Field("owner")), "Invalid owner address") >>

\* Check i fails and every check before it passes.
FirstFailure(checks, i) == ~checks[i].ok /\ \A j \in 1..(i - 1) : checks[j].ok

\* C10: with all fields present, a handler answers 400 with the error string
\* of the first parse check that fails, in the order above; the error string
\* of a reply identifies that check; and a reply has status 200 exactly when
\* its success is true.
C10_FirstFailureWins ==
    /\ Answered("/keypair") => IsSuccessReply(Rep)
    /\ \A p \in BodyPaths :
        Answered(p) =>
            /\ Rep.content = "json"
            /\ (Rep.status = 200) <=> (Rep.body.success = TRUE)
            /\ AllPresent(p) =>
                 LET checks == ParseChecks(p)
                 IN  /\ \A i \in 1..Len(checks) :
                            FirstFailure(checks, i)
                                <=> IsErrorReply(Rep, 400, checks[i].error)
                     /\ (\A i \in 1..Len(checks) : checks[i].ok) <=> (Rep.status = 200)

\* A token transfer whose destination is fine and whose mint and owner both
\* fail to parse was refused for its mint.
C10_Witness ==
    /\ Answered("/send/token")
    /\ Req.body.destination = Some(SystemProgramText)
    /\ Req.body.mint = Some(NotBase58)
    /\ Req.body.owner = Some(NotBase58)
    /\ Req.body.amount # None
    /\ IsErrorReply(Rep, 400, "Invalid mint address")

====
